---- MODULE Spec2Model ----
(***************************************************************************)
(* Model of src/app.py: the DynamicScraperAPI object (the lru_cache in     *)
(* front of analyze_page_structure and the cached_schemas dictionary), its *)
(* methods analyze_page_structure and generate_api_endpoint, and the route *)
(* GET /api/scrape/<id> around execute_scraping.  POST /api/analyze is     *)
(* generate_api_endpoint followed by execute_scraping of the id it         *)
(* returned, which the sequential specification explores as two calls.     *)
(*                                                                         *)
(* Strings whose characters the code inspects (URLs, element texts,        *)
(* attribute values) are sequences of one-character strings.  The three    *)
(* collaborators (requests.get, BeautifulSoup, the chat completion) are    *)
(* inputs: every call draws its outcome from a small set.                  *)
(***************************************************************************)
EXTENDS Integers, Sequences, FiniteSets, TLC

VARIABLES
    cache,          \* the lru_cache of analyze_page_structure: <<[url, structure]>>, least recently used first
    cached_schemas, \* self.cached_schemas: endpoint id -> endpoint_config
    hashOf,         \* this process's hash() of each query string (salted per process)
    last,           \* the last call made, with what it did and returned
    fetchCount,     \* per URL: requests.get calls made by analyze_page_structure
    returnedCount,  \* per URL: those of them that returned a response
    touched,        \* URLs passed to analyze_page_structure so far
    lastUse,        \* per URL: the number of the last call that returned its structure, 0 if none
    registered,     \* ids that calls of generate_api_endpoint have returned
    calls,          \* number of calls made so far
    pc, turl, tquery, tstructure, tconfig   \* concurrent generate_api_endpoint calls: position and locals

vars == <<cache, cached_schemas, hashOf, last, fetchCount, returnedCount, touched, lastUse,
          registered, calls, pc, turl, tquery, tstructure, tconfig>>

seqVars == <<last, fetchCount, returnedCount, touched, lastUse, registered, calls>>
threadVars == <<pc, turl, tquery, tstructure, tconfig>>

----------------------------------------------------------------------------
(* Bounds *)

\* capacity of the lru_cache (maxsize=100 at src/app.py:21), scaled down so
\* that a full cache and an eviction are reached
maxsize == 2

\* calls made on the object in one run of Spec
MaxCalls == 3

\* calls of analyze_page_structure in one run of CacheSpec
MaxAnalyzeCalls == 5

\* concurrent generate_api_endpoint calls in the concurrent specification
NumThreads == 2


----------------------------------------------------------------------------
(* Program constants *)

\* hash(query) % 10000
HashModulus == 10000

----------------------------------------------------------------------------
(* Strings *)

None == <<"None">>      \* Python's None where a string is expected
Missing == <<"Missing">> \* a key a dictionary does not have

AlNum == {"a", "b", "c", "d", "h", "t", "p", "s", "0", "1", "2", "3", "4",
          "5", "6", "7", "8", "9"}

Whitespace == {" "}

RECURSIVE LStrip(_)
LStrip(s) ==
    IF s # <<>> /\ Head(s) \in Whitespace THEN LStrip(Tail(s)) ELSE s

RECURSIVE RStrip(_)
RStrip(s) ==
    IF s # <<>> /\ s[Len(s)] \in Whitespace THEN RStrip(SubSeq(s, 1, Len(s) - 1)) ELSE s

\* str.strip()
Strip(s) == RStrip(LStrip(s))

\* url.split('//'): leftmost, non-overlapping occurrences of the separator
RECURSIVE SplitDoubleSlash(_)
SplitDoubleSlash(s) ==
    LET hits == {i \in 1..(Len(s) - 1) : s[i] = "/" /\ s[i + 1] = "/"}
    IN  IF hits = {} THEN <<s>>
        ELSE LET i == CHOOSE j \in hits : \A k \in hits : j <= k
             IN  <<SubSeq(s, 1, i - 1)>> \o SplitDoubleSlash(SubSeq(s, i + 2, Len(s)))

\* re.sub(r'[^a-zA-Z0-9]', '_', s)
Sanitize(s) == [i \in 1..Len(s) |-> IF s[i] \in AlNum THEN s[i] ELSE "_"]

DigitChar(d) == <<"0", "1", "2", "3", "4", "5", "6", "7", "8", "9">>[d + 1]

\* str(n) for n >= 0
RECURSIVE Digits(_)
Digits(n) == IF n < 10 THEN <<DigitChar(n)>> ELSE Digits(n \div 10) \o <<DigitChar(n % 10)>>

----------------------------------------------------------------------------
(* Inputs: URLs, queries, fetched documents, inference responses *)

UrlAB  == <<"h", "t", "t", "p", ":", "/", "/", "a", ".", "b">>
UrlA_B == <<"h", "t", "t", "p", ":", "/", "/", "a", "_", "b">>
UrlC   == <<"h", "t", "t", "p", ":", "/", "/", "c">>
UrlCD  == <<"h", "t", "t", "p", ":", "/", "/", "c", "/", "/", "d">>

\* the URLs clients name in Spec and ConcSpec; UrlAB and UrlA_B sanitize alike
URLs == {UrlAB, UrlA_B, UrlC}

\* the URLs analyzed in CacheSpec
AnalyzeUrls == URLs \cup {UrlCD}

Queries == {"q1", "q2"}

\* hash() of the queries in one process: q2 either collides with q1 modulo
\* 10000 (7 and -9993 are congruent) or does not
HashFunctions == { [q \in Queries |-> IF q = "q1" THEN 7 ELSE h] : h \in {-9993, 8} }

Tag(tag, text, href) == [tag |-> tag, text |-> text, attrs |-> [href |-> href]]

\* a NavigableString of the parse tree
TextNode(text) == [tag |-> "#text", text |-> text, attrs |-> [href |-> None]]

Doc1 == [title |-> <<"T">>,
         elements |-> << Tag("h1", <<"h">>, None),
                         Tag("a", <<" ", "a", " ">>, <<"/", "a">>),
                         Tag("a", <<" ">>, <<>>),
                         Tag("a", <<>>, None) >>]

DocErr == [title |-> None,
           elements |-> << Tag("h1", <<"5", "0", "0">>, None) >>]

NoDoc == [title |-> None, elements |-> <<>>]

\* what one requests.get call can do: raise, or return a response
Response(raises, status, doc) == [raises |-> raises, status |-> status, doc |-> doc]

Docs == {Doc1, DocErr}

NoResponse == Response(FALSE, 0, NoDoc)

Responses == { Response(TRUE, 0, NoDoc),         \* no response: a transport failure
               Response(FALSE, 200, Doc1),
               Response(FALSE, 500, DocErr) }    \* an error status with an error page

Selector(type, selector, attribute, description) ==
    [type |-> type, selector |-> selector, attribute |-> attribute, description |-> description]

\* the last entry reads an attribute of the text nodes matching "5"
SelA == << Selector(<<"css">>, <<"a">>, <<"text">>, <<"link text">>),
           Selector(<<"css">>, <<"a">>, <<"href">>, <<"link">>),
           Selector(<<"xpath">>, <<"h">>, <<"text">>, <<"heading">>),
           Selector(<<"xpath">>, <<"5">>, <<"href">>, <<"code">>) >>

\* a value json.loads can return: a list, or a dict (keys in insertion order)
PyList(items) == [t |-> "list", keys |-> <<>>, items |-> items]
PyDict(keys, selectors) == [t |-> "dict", keys |-> keys, items |-> selectors]

RequestedKeys == <<"selectors", "preprocessing", "postprocessing">>

NoValue == PyList(<<>>)

\* what one chat completion can do: raise, or return message content
Completion(raises, json, value) == [raises |-> raises, json |-> json, value |-> value]

\* no completion was asked for
NoCompletion == Completion(TRUE, TRUE, NoValue)

Completions == { Completion(TRUE, FALSE, NoValue),              \* service unreachable
                 Completion(FALSE, FALSE, NoValue),             \* content that is not JSON
                 Completion(FALSE, TRUE, PyDict(RequestedKeys, SelA)),  \* the shape the prompt asks for
                 Completion(FALSE, TRUE, PyDict(<<"foo">>, <<>>)),      \* JSON with no selectors array
                 Completion(FALSE, TRUE, PyList(SelA)) }                \* a bare list of entries

----------------------------------------------------------------------------
(* analyze_page_structure and the lru_cache around it *)

\* [h.text for h in soup.find_all(['h1', 'h2', 'h3'])]
Headings(doc) ==
    LET hs == SelectSeq(doc.elements, LAMBDA e : e.tag \in {"h1", "h2", "h3"})
    IN  [i \in 1..Len(hs) |-> hs[i].text]

\* the dictionary analyze_page_structure builds from the parsed response; the
\* documents of the model hold no main/nav landmark, container tag, class
\* attribute, list or table, which leaves those fields None or empty
Structure(doc) ==
    [title |-> doc.title,
     headings |-> Headings(doc),
     main_content |-> None,
     navigation |-> None,
     schema |-> [elements |-> <<>>, lists |-> <<>>, tables |-> <<>>]]

NoStructure == Structure(NoDoc)

\* position of url's entry in the cache, 0 when it has none
CacheIndex(c, url) ==
    IF \E i \in 1..Len(c) : c[i].url = url
    THEN CHOOSE i \in 1..Len(c) : c[i].url = url
    ELSE 0

CacheUrls(c) == {c[i].url : i \in 1..Len(c)}

\* variant: a hit that leaves the order as it is (first in, first out)
LruHitNoMove(c, i) == c

\* a hit: the entry becomes the most recently used
LruHit(c, i) == SubSeq(c, 1, i - 1) \o SubSeq(c, i + 1, Len(c)) \o <<c[i]>>

\* variant: the result of a miss is not stored
LruStoreNothing(c, url, structure) == c

\* a miss whose call returned: store the result; nothing to do when the key
\* was added while the call ran; a full cache drops its oldest entry
LruStore(c, url, structure) ==
    IF CacheIndex(c, url) # 0 THEN c
    ELSE IF Len(c) >= maxsize THEN Tail(c) \o <<[url |-> url, structure |-> structure]>>
    ELSE c \o <<[url |-> url, structure |-> structure]>>

\* one call of analyze_page_structure(url); resp is what requests.get does if
\* it is called.  The status of the response is not looked at.
AnalyzeCall(c, url, resp) ==
    LET i == CacheIndex(c, url)
    IN  IF i # 0
        THEN [cache |-> LruHit(c, i), exc |-> "none", structure |-> c[i].structure,
              fetched |-> <<>>]
        ELSE IF resp.raises
        THEN [cache |-> c, exc |-> "RequestException", structure |-> NoStructure,
              fetched |-> <<[url |-> url, resp |-> resp]>>]
        ELSE [cache |-> LruStore(c, url, Structure(resp.doc)), exc |-> "none",
              structure |-> Structure(resp.doc),
              fetched |-> <<[url |-> url, resp |-> resp]>>]

----------------------------------------------------------------------------
(* generate_api_endpoint *)

\* _generate_endpoint_id; every URL of the model holds '//', so index 1 of
\* the split (the second part) exists
EndpointId(url, query) ==
    <<"scrape_">> \o Sanitize(SplitDoubleSlash(url)[2]) \o <<"_">>
        \o Digits(hashOf[query] % HashModulus)

EndpointConfig(url, selectors, query) ==
    [url |-> url, selectors |-> selectors, query |-> query, method |-> "GET",
     parameters |-> [format |-> "json", cache_timeout |-> 3600]]

NoConfig == EndpointConfig(<<>>, NoValue, "")

NoId == <<>>

\* variant: cached_schemas.setdefault(endpoint_id, endpoint_config)
RegistryWriteOnce(reg, id, config) ==
    [k \in DOMAIN reg \cup {id} |-> IF k \in DOMAIN reg THEN reg[k] ELSE config]

\* variant: self.cached_schemas = {endpoint_id: endpoint_config}
RegistryRebind(reg, id, config) == [k \in {id} |-> config]

\* self.cached_schemas[endpoint_id] = endpoint_config
RegistryWrite(reg, id, config) ==
    [k \in DOMAIN reg \cup {id} |-> IF k = id THEN config ELSE reg[k]]

\* prompt, completion and json.loads: the parsed content is the whole of
\* `selectors`, whatever its shape
PlanCall(comp) ==
    IF comp.raises THEN [exc |-> "APIError", selectors |-> NoValue]
    ELSE IF ~comp.json THEN [exc |-> "JSONDecodeError", selectors |-> NoValue]
    ELSE [exc |-> "none", selectors |-> comp.value]

GenerateCall(c, reg, url, query, resp, comp) ==
    LET a == AnalyzeCall(c, url, resp)
        p == PlanCall(comp)
        config == EndpointConfig(url, p.selectors, query)
        id == EndpointId(url, query)
    IN  IF a.exc # "none"
        THEN [cache |-> a.cache, reg |-> reg, exc |-> a.exc, id |-> NoId,
              config |-> NoConfig, fetched |-> a.fetched]
        ELSE IF p.exc # "none"
        THEN [cache |-> a.cache, reg |-> reg, exc |-> p.exc, id |-> NoId,
              config |-> NoConfig, fetched |-> a.fetched]
        ELSE [cache |-> a.cache, reg |-> RegistryWrite(reg, id, config), exc |-> "none",
              id |-> id, config |-> config, fetched |-> a.fetched]

----------------------------------------------------------------------------
(* execute_scraping *)

\* soup.select(selector): the CSS selectors of the model are type selectors
CssSelect(doc, selector) == SelectSeq(doc.elements, LAMBDA e : <<e.tag>> = selector)

\* re.search of a one-character pattern in a string
Matches(pattern, text) == \E i \in 1..Len(text) : <<text[i]>> = pattern

\* soup.find_all(string=re.compile(selector)): the matching text nodes, which
\* are NavigableStrings, not tags; an element with no text has no text node
StringSelect(doc, selector) ==
    LET withText == SelectSeq(doc.elements,
                              LAMBDA e : e.text # <<>> /\ Matches(selector, e.text))
    IN  [i \in 1..Len(withText) |-> TextNode(withText[i].text)]

\* element.get(attribute) of a tag
GetAttribute(element, attribute) ==
    IF attribute = <<"href">> THEN element.attrs.href ELSE None

\* if value:
Truthy(value) == value # None /\ value # <<>>

\* the body of the inner loop for one matched element: the entries it appends
\* (none or one), or the exception it raises
ExtractElement(selector, element) ==
    IF selector.attribute = Missing
    THEN [exc |-> "KeyError", entries |-> <<>>]
    ELSE IF selector.attribute # <<"text">> /\ element.tag = "#text"
    THEN [exc |-> "AttributeError", entries |-> <<>>]   \* a NavigableString has no get()
    ELSE LET value == IF selector.attribute = <<"text">>
                      THEN Strip(element.text)
                      ELSE GetAttribute(element, selector.attribute)
         IN  IF ~Truthy(value) THEN [exc |-> "none", entries |-> <<>>]
             ELSE IF selector.description = Missing
             THEN [exc |-> "KeyError", entries |-> <<>>]
             ELSE [exc |-> "none",
                   entries |-> <<[type |-> selector.description, value |-> value]>>]

\* the inner loop over elements[i..]
RECURSIVE ExtractElements(_, _, _)
ExtractElements(selector, elements, i) ==
    IF i > Len(elements) THEN [exc |-> "none", entries |-> <<>>]
    ELSE LET one == ExtractElement(selector, elements[i])
         IN  IF one.exc # "none" THEN one
             ELSE LET rest == ExtractElements(selector, elements, i + 1)
                  IN  [exc |-> rest.exc, entries |-> one.entries \o rest.entries]

\* one pass of the outer loop.  Iterating a dict yields its keys, and
\* indexing a key (a str) with 'type' raises TypeError.
ExtractSelector(selectors, k, doc) ==
    IF selectors.t = "dict" THEN [exc |-> "TypeError", entries |-> <<>>]
    ELSE LET selector == selectors.items[k]
         IN  IF selector.type = Missing \/ selector.selector = Missing
             THEN [exc |-> "KeyError", entries |-> <<>>]
             ELSE ExtractElements(selector,
                                  IF selector.type = <<"css">>
                                  THEN CssSelect(doc, selector.selector)
                                  ELSE StringSelect(doc, selector.selector),
                                  1)

\* what `for selector in config['selectors']` iterates over
IterLen(selectors) == IF selectors.t = "dict" THEN Len(selectors.keys) ELSE Len(selectors.items)

\* the outer loop from position k on
RECURSIVE ExtractFrom(_, _, _)
ExtractFrom(selectors, k, doc) ==
    IF k > IterLen(selectors) THEN [exc |-> "none", entries |-> <<>>]
    ELSE LET one == ExtractSelector(selectors, k, doc)
         IN  IF one.exc # "none" THEN one
             ELSE LET rest == ExtractFrom(selectors, k + 1, doc)
                  IN  [exc |-> rest.exc, entries |-> one.entries \o rest.entries]

\* variant: the document behind the cached structure, when the url has one
ScrapedDocFromCache(c, config, resp) ==
    IF CacheIndex(c, config.url) # 0
    THEN CHOOSE d \in Docs : Structure(d) = c[CacheIndex(c, config.url)].structure
    ELSE resp.doc

\* the document execute_scraping parses: the response it has just fetched
ScrapedDoc(c, config, resp) == resp.doc

\* the membership test that guards the lookup
IsRegistered(reg, id) == id \in DOMAIN reg

\* one call of execute_scraping(endpoint_id); resp is what requests.get does
\* if it is called
ExecuteCall(c, reg, id, resp) ==
    IF ~IsRegistered(reg, id)
    THEN [exc |-> "ValueError", config |-> NoConfig, results |-> <<>>, fetched |-> <<>>]
    ELSE LET config == reg[id]
             fetched == <<[url |-> config.url, resp |-> resp]>>
         IN  IF resp.raises
             THEN [exc |-> "RequestException", config |-> config, results |-> <<>>,
                   fetched |-> fetched]
             ELSE LET r == ExtractFrom(config.selectors, 1, ScrapedDoc(c, config, resp))
                  IN  [exc |-> r.exc, config |-> config,
                       results |-> IF r.exc = "none" THEN r.entries ELSE <<>>,
                       fetched |-> fetched]

----------------------------------------------------------------------------
(* The route GET /api/scrape/<endpoint_id> *)

\* variant: the handler catches another exception type than the one raised
ScrapeStatusUncaught(exc) == IF exc = "none" THEN 200 ELSE 500

\* scrape_endpoint: ValueError becomes 404, any other exception Flask's 500
ScrapeStatus(exc) ==
    IF exc = "none" THEN 200 ELSE IF exc = "ValueError" THEN 404 ELSE 500

\* an id a client may ask for that no (url, query) pair of the model produces
UnknownIds == { <<"scrape_", "x", "_", "1">> }

RequestIds == {EndpointId(u, q) : u \in URLs, q \in Queries} \cup UnknownIds

----------------------------------------------------------------------------
(* What the collaborators are asked: a call that is not made draws nothing *)

FetchChoices(c, url) == IF CacheIndex(c, url) # 0 THEN {NoResponse} ELSE Responses

CompletionChoices(c, url, resp) ==
    IF AnalyzeCall(c, url, resp).exc # "none" THEN {NoCompletion} ELSE Completions

ScrapeChoices(reg, id) == IF IsRegistered(reg, id) THEN Responses ELSE {NoResponse}

----------------------------------------------------------------------------
(* State machine, one call at a time *)

Threads == 1..NumThreads

\* a call: its arguments, what the collaborators did (fetched, comp), what it
\* raised or returned, the status the route answered with, and the config the
\* registry held under its id before it
Call(op, url, query, id, exc, http, structure, config, results, fetched, comp, prev) ==
    [op |-> op, url |-> url, query |-> query, id |-> id, exc |-> exc, http |-> http,
     structure |-> structure, config |-> config, results |-> results, fetched |-> fetched,
     comp |-> comp, prev |-> prev]

NoUrl == <<>>
NoQuery == ""

NoCall == Call("none", NoUrl, NoQuery, NoId, "none", 0, NoStructure, NoConfig, <<>>, <<>>,
               NoCompletion, NoConfig)

Init ==
    /\ cache = <<>>
    /\ cached_schemas = <<>>
    /\ hashOf \in HashFunctions
    /\ last = NoCall
    /\ fetchCount = [u \in AnalyzeUrls |-> 0]
    /\ returnedCount = [u \in AnalyzeUrls |-> 0]
    /\ touched = {}
    /\ lastUse = [u \in AnalyzeUrls |-> 0]
    /\ registered = {}
    /\ calls = 0
    /\ pc = [t \in Threads |-> "idle"]
    /\ turl = [t \in Threads |-> NoUrl]
    /\ tquery = [t \in Threads |-> NoQuery]
    /\ tstructure = [t \in Threads |-> NoStructure]
    /\ tconfig = [t \in Threads |-> NoConfig]

\* bookkeeping of a call of analyze_page_structure(url) that fetched `fetched`
\* and ended with exc
CountAnalyze(url, fetched, exc) ==
    /\ touched' = touched \cup {url}
    /\ lastUse' = IF exc = "none" THEN [lastUse EXCEPT ![url] = calls + 1] ELSE lastUse
    /\ fetchCount' = [fetchCount EXCEPT ![url] = @ + Len(fetched)]
    /\ returnedCount' = [returnedCount EXCEPT ![url] =
                            @ + Len(SelectSeq(fetched, LAMBDA f : ~f.resp.raises))]
    /\ calls' = calls + 1

\* scraper.analyze_page_structure(url)
AnalyzePageStructure(url, resp) ==
    /\ calls < MaxAnalyzeCalls
    /\ \E a \in {AnalyzeCall(cache, url, resp)} :
          /\ cache' = a.cache
          /\ last' = Call("analyze", url, NoQuery, NoId, a.exc, 0, a.structure, NoConfig,
                          <<>>, a.fetched, NoCompletion, NoConfig)
          /\ CountAnalyze(url, a.fetched, a.exc)
    /\ UNCHANGED <<cached_schemas, hashOf, registered, threadVars>>

\* scraper.generate_api_endpoint(url, query)
GenerateApiEndpoint(url, query, resp, comp) ==
    /\ calls < MaxCalls
    /\ \E g \in {GenerateCall(cache, cached_schemas, url, query, resp, comp)} :
          /\ cache' = g.cache
          /\ cached_schemas' = g.reg
          /\ registered' = IF g.exc = "none" THEN registered \cup {g.id} ELSE registered
          /\ last' = Call("generate", url, query, g.id, g.exc, 0, NoStructure, g.config,
                          <<>>, g.fetched, comp,
                          IF g.exc = "none" /\ IsRegistered(cached_schemas, g.id)
                          THEN cached_schemas[g.id] ELSE NoConfig)
    /\ calls' = calls + 1
    /\ UNCHANGED <<hashOf, fetchCount, returnedCount, touched, lastUse, threadVars>>

\* GET /api/scrape/<endpoint_id>: scraper.execute_scraping(endpoint_id) and
\* the status the route answers with
ScrapeEndpoint(id, resp) ==
    /\ calls < MaxCalls
    /\ \E e \in {ExecuteCall(cache, cached_schemas, id, resp)} :
          last' = Call("scrape", NoUrl, NoQuery, id, e.exc, ScrapeStatus(e.exc), NoStructure,
                       e.config, e.results, e.fetched, NoCompletion, NoConfig)
    /\ calls' = calls + 1
    /\ UNCHANGED <<cache, cached_schemas, hashOf, fetchCount, returnedCount, touched,
                   lastUse, registered, threadVars>>

Next ==
    \/ \E url \in URLs, query \in Queries :
          \E resp \in FetchChoices(cache, url) :
             \E comp \in CompletionChoices(cache, url, resp) :
                GenerateApiEndpoint(url, query, resp, comp)
    \/ \E id \in RequestIds :
          \E resp \in ScrapeChoices(cached_schemas, id) : ScrapeEndpoint(id, resp)

Spec == Init /\ [][Next]_vars

CacheNext ==
    \E url \in AnalyzeUrls :
       \E resp \in FetchChoices(cache, url) : AnalyzePageStructure(url, resp)

CacheSpec == Init /\ [][CacheNext]_vars

----------------------------------------------------------------------------
(* Concurrent calls of generate_api_endpoint, one per request thread.  A     *)
(* step is what runs without another thread getting in between: the cache  *)
(* lookup and the cache store of the lru_cache wrapper, the blocking fetch *)
(* and completion, the dictionary store.                                   *)

\* a request thread enters generate_api_endpoint(url, query); threads are
\* numbered in the order they arrive
TCall(t, url, query) ==
    /\ pc[t] = "idle"
    /\ \A s \in Threads : s < t => pc[s] # "idle"
    /\ pc' = [pc EXCEPT ![t] = "lookup"]
    /\ turl' = [turl EXCEPT ![t] = url]
    /\ tquery' = [tquery EXCEPT ![t] = query]
    /\ UNCHANGED <<cache, cached_schemas, hashOf, seqVars, tstructure, tconfig>>

\* the wrapper looks the key up: a hit returns the stored value
TLookup(t) ==
    /\ pc[t] = "lookup"
    /\ \E i \in {CacheIndex(cache, turl[t])} :
          IF i # 0
          THEN /\ cache' = LruHit(cache, i)
               /\ tstructure' = [tstructure EXCEPT ![t] = cache[i].structure]
               /\ pc' = [pc EXCEPT ![t] = "infer"]
          ELSE /\ pc' = [pc EXCEPT ![t] = "fetch"]
               /\ UNCHANGED <<cache, tstructure>>
    /\ UNCHANGED <<cached_schemas, hashOf, seqVars, turl, tquery, tconfig>>

\* the body of analyze_page_structure runs outside the wrapper's bookkeeping
TFetch(t, resp) ==
    /\ pc[t] = "fetch"
    /\ IF resp.raises
       THEN /\ pc' = [pc EXCEPT ![t] = "failed"]
            /\ UNCHANGED tstructure
       ELSE /\ pc' = [pc EXCEPT ![t] = "store"]
            /\ tstructure' = [tstructure EXCEPT ![t] = Structure(resp.doc)]
    /\ UNCHANGED <<cache, cached_schemas, hashOf, seqVars, turl, tquery, tconfig>>

\* the wrapper stores the value the body returned
TStore(t) ==
    /\ pc[t] = "store"
    /\ cache' = LruStore(cache, turl[t], tstructure[t])
    /\ pc' = [pc EXCEPT ![t] = "infer"]
    /\ UNCHANGED <<cached_schemas, hashOf, seqVars, turl, tquery, tstructure, tconfig>>

\* the completion, json.loads and the endpoint_config literal
TInfer(t, comp) ==
    /\ pc[t] = "infer"
    /\ \E p \in {PlanCall(comp)} :
          IF p.exc # "none"
          THEN /\ pc' = [pc EXCEPT ![t] = "failed"]
               /\ UNCHANGED tconfig
          ELSE /\ pc' = [pc EXCEPT ![t] = "register"]
               /\ tconfig' = [tconfig EXCEPT ![t] =
                                 EndpointConfig(turl[t], p.selectors, tquery[t])]
    /\ UNCHANGED <<cache, cached_schemas, hashOf, seqVars, turl, tquery, tstructure>>

\* self.cached_schemas[endpoint_id] = endpoint_config, and the return
TRegister(t) ==
    /\ pc[t] = "register"
    /\ cached_schemas' = RegistryWrite(cached_schemas, EndpointId(turl[t], tquery[t]),
                                       tconfig[t])
    /\ pc' = [pc EXCEPT ![t] = "done"]
    /\ UNCHANGED <<cache, hashOf, seqVars, turl, tquery, tstructure, tconfig>>

\* the inputs of the concurrent calls: two URLs with one sanitized form, so
\* that ids differ by the query's hash alone
ConcUrls == {UrlAB, UrlA_B}

ConcResponses == {r \in Responses : r.status # 500}

ConcCompletions == {c \in Completions : c.raises \/ (c.json /\ c.value.items = SelA)}

ConcNext ==
    \E t \in Threads :
       \/ \E url \in ConcUrls, query \in Queries : TCall(t, url, query)
       \/ TLookup(t)
       \/ \E resp \in ConcResponses : TFetch(t, resp)
       \/ TStore(t)
       \/ \E comp \in ConcCompletions : TInfer(t, comp)
       \/ TRegister(t)

ConcSpec == Init /\ [][ConcNext]_vars

----------------------------------------------------------------------------
(* Claims about the cache, checked under CacheSpec *)

CacheEntries(c) == {c[i] : i \in 1..Len(c)}

\* the call just made was analyze_page_structure and it fetched
AnalyzeFetched == last.op = "analyze" /\ last.fetched # <<>>

C5_LruEviction ==
    [][ /\ Len(cache') <= maxsize
        /\ LET gone == CacheEntries(cache) \ CacheEntries(cache')
               evicting == /\ last'.op = "analyze" /\ last'.exc = "none"
                           /\ last'.fetched # <<>>
                           /\ Len(cache) = maxsize
           IN  IF evicting
               THEN \E e \in CacheEntries(cache) :
                       /\ gone = {e}
                       /\ \A o \in CacheEntries(cache) : lastUse[e.url] <= lastUse[o.url]
               ELSE gone = {} ]_vars

\* the last call missed and stored its result in a full cache: a URL whose
\* structure was stored is no longer cached, and an entry used after it is
C5_Witness ==
    /\ AnalyzeFetched /\ last.exc = "none"
    /\ Len(cache) = maxsize
    /\ \E u \in AnalyzeUrls :
          /\ returnedCount[u] >= 1 /\ u \notin CacheUrls(cache)
          /\ \E v \in CacheUrls(cache) : v # last.url /\ lastUse[v] > lastUse[u]

\* C7 as stated: a fetch that raised or returned a non-success status makes
\* analyze fail and leaves no structure for the URL in the cache.
C7_FailedFetchNotCached ==
    (AnalyzeFetched /\ (last.fetched[1].resp.raises \/ last.fetched[1].resp.status # 200))
        => (last.exc # "none" /\ last.url \notin CacheUrls(cache))

----------------------------------------------------------------------------
(* Claims about the registry and replay, checked under Spec *)

\* the call just made
Generated == last.op = "generate" /\ last.exc = "none"
Scraped == last.op = "scrape"

\* the shape the prompt asks for: an object with a `selectors` array whose
\* entries have the four fields and a kind of css or xpath
WellFormedEntry(e) ==
    /\ e.type \in {<<"css">>, <<"xpath">>}
    /\ e.selector # Missing /\ e.attribute # Missing /\ e.description # Missing

RequestedShape(value) ==
    /\ value.t = "dict"
    /\ \E i \in 1..Len(value.keys) : value.keys[i] = "selectors"
    /\ \A i \in 1..Len(value.items) : WellFormedEntry(value.items[i])

\* C2 as stated: after generate_api_endpoint succeeded on a payload of the
\* requested shape, the id resolves to a config whose url and query are the
\* inputs and whose selectors is the payload's selectors array.
C2_SelectorsAreTheArray ==
    (Generated /\ RequestedShape(last.comp.value))
        => /\ IsRegistered(cached_schemas, last.id)
           /\ cached_schemas[last.id].url = last.url
           /\ cached_schemas[last.id].query = last.query
           /\ cached_schemas[last.id].selectors = PyList(last.comp.value.items)

\* C3: a scrape of an id that no generate_api_endpoint call has returned
\* raises ValueError without fetching, is answered 404, and changes neither
\* the registry nor the cache.
C3_UnregisteredIs404 ==
    [][ (last'.op = "scrape" /\ calls' = calls + 1 /\ last'.id \notin registered)
           => /\ last'.exc = "ValueError"
              /\ last'.fetched = <<>>
              /\ last'.http = 404
              /\ cached_schemas' = cached_schemas
              /\ cache' = cache ]_vars

\* an unregistered id was asked for while other ids were registered
C3_Witness ==
    /\ Scraped /\ last.http = 404
    /\ registered # {} /\ last.id \notin registered

\* C4 as stated: a replay that fetched its document raises no error on
\* matched elements, and no entry it returns has an empty or undefined
\* value.  Stated for configs whose selectors is a list of entries.
C4_EmptyValuesDropped ==
    (/\ Scraped /\ last.fetched # <<>> /\ ~last.fetched[1].resp.raises
     /\ last.config.selectors.t = "list")
        => /\ last.exc = "none"
           /\ \A i \in 1..Len(last.results) : Truthy(last.results[i].value)

\* C6 as stated: a completion that is not of the requested shape makes
\* generate_api_endpoint fail and leaves the registry as it was.
C6_MalformedRejected ==
    [][ (/\ last'.op = "generate" /\ calls' = calls + 1
         /\ ~last'.comp.raises
         /\ (~last'.comp.json \/ ~RequestedShape(last'.comp.value)))
           => (last'.exc # "none" /\ cached_schemas' = cached_schemas) ]_vars

\* C9 as stated: a registered config is left as it is by every scrape and by
\* every later generate_api_endpoint call for its own (url, query) pair.
C9_ConfigNeverChanges ==
    [][ \A id \in DOMAIN cached_schemas :
           (\/ last'.op = "scrape"
            \/ /\ last'.op = "generate"
               /\ last'.url = cached_schemas[id].url
               /\ last'.query = cached_schemas[id].query)
              => /\ IsRegistered(cached_schemas', id)
                 /\ cached_schemas'[id] = cached_schemas[id] ]_vars

\* C9, amended: a registered id stays registered; a scrape and a failed
\* generate_api_endpoint call leave the registry as it is; a
\* generate_api_endpoint call that succeeds stores under its id the config
\* built from its own arguments and completion, replacing any config the id
\* had, and leaves every other id's config as it is.
C9_LastGenerateWins ==
    [][ /\ DOMAIN cached_schemas \subseteq DOMAIN cached_schemas'
        /\ (last'.op = "scrape" \/ last'.exc # "none") => cached_schemas' = cached_schemas
        /\ (last'.op = "generate" /\ last'.exc = "none" /\ calls' = calls + 1)
              => /\ cached_schemas'[last'.id]
                       = EndpointConfig(last'.url, last'.comp.value, last'.query)
                 /\ \A id \in DOMAIN cached_schemas :
                       id # last'.id => cached_schemas'[id] = cached_schemas[id] ]_vars

\* a second generate_api_endpoint call for the same (url, query) replaced the
\* config of the first by a different one
C9_Witness ==
    /\ Generated
    /\ last.prev # NoConfig
    /\ last.prev.url = last.url /\ last.prev.query = last.query
    /\ last.prev # last.config
    /\ cached_schemas[last.id] = last.config

\* C10: a scrape of a registered id makes exactly one fetch, of the config's
\* url; what it raises or returns is the extraction over the fetched
\* document; it changes neither the cache nor the registry.
C10_FreshFetch ==
    [][ (last'.op = "scrape" /\ calls' = calls + 1 /\ IsRegistered(cached_schemas, last'.id))
           => /\ Len(last'.fetched) = 1
              /\ last'.fetched[1].url = cached_schemas[last'.id].url
              /\ cache' = cache
              /\ cached_schemas' = cached_schemas
              /\ ~last'.fetched[1].resp.raises
                    => LET r == ExtractFrom(cached_schemas[last'.id].selectors, 1,
                                            last'.fetched[1].resp.doc)
                       IN  /\ last'.exc = r.exc
                           /\ r.exc = "none" => last'.results = r.entries ]_vars

\* a scrape returned entries of a document other than the one whose
\* structure the cache holds for the url
C10_Witness ==
    /\ Scraped /\ last.exc = "none" /\ last.results # <<>>
    /\ \E i \in 1..Len(cache) :
          /\ cache[i].url = last.config.url
          /\ cache[i].structure # Structure(last.fetched[1].resp.doc)

----------------------------------------------------------------------------
(* Claim about concurrent registration, checked under ConcSpec *)

AllSettled == \A t \in Threads : pc[t] \in {"done", "failed"}

TId(t) == EndpointId(turl[t], tquery[t])

\* C8: once every concurrent call has ended, the id of each call that
\* returned is registered and resolves to the config one of the calls with
\* that id wrote: its own when no other call has the id.
C8_NoLostRegistration ==
    AllSettled =>
       \A t \in Threads :
          pc[t] = "done"
             => /\ IsRegistered(cached_schemas, TId(t))
                /\ \E s \in Threads :
                      /\ pc[s] = "done" /\ TId(s) = TId(t)
                      /\ cached_schemas[TId(t)] = tconfig[s]

\* two concurrent calls with distinct ids and configs have both returned
C8_Witness ==
    /\ AllSettled
    /\ \E t, s \in Threads :
          /\ pc[t] = "done" /\ pc[s] = "done"
          /\ TId(t) # TId(s)
          /\ cached_schemas[TId(t)] = tconfig[t]
          /\ cached_schemas[TId(s)] = tconfig[s]
          /\ tconfig[t] # tconfig[s]

====
